---- MODULE Spec2Model ----
(***************************************************************************)
(* Model of usdc_checker.py: load an address file, validate the entries,   *)
(* fetch token metadata, query balances in Multicall3 batches with         *)
(* retry/backoff, print the non-zero balances and optionally write a CSV.  *)
(* Text is modelled as a sequence of one-character strings, byte strings   *)
(* as sequences of numbers 0..255.                                         *)
(***************************************************************************)
EXTENDS Integers, Sequences, FiniteSets, TLC

(* ---------------------------- bounds ----------------------------------- *)
(* lines in the addresses file, largest --chunk, and the number of hex
   digits of an address (40 on chain, scaled down) *)
MaxLines == 3
MaxChunk == 2
AddrHexLen == 4

(* ------------------------ program constants ---------------------------- *)
Retries == 6
BaseDelayMs == 400
WordBytes == 32

USDC_BASE == "USDC_BASE"
DefaultSymbol == <<"U", "S", "D", "C">>

(* ----------------------------- text helpers ---------------------------- *)
Zeros(n) == [i \in 1..n |-> "0"]

Digits == {"0", "1", "2", "3", "4", "5", "6", "7", "8", "9"}
LowerHex == {"a", "b", "c", "d", "e", "f"}
UpperHex == {"A", "B", "C", "D", "E", "F"}

ToLower(c) ==
  CASE c = "A" -> "a" [] c = "B" -> "b" [] c = "C" -> "c"
    [] c = "D" -> "d" [] c = "E" -> "e" [] c = "F" -> "f"
    [] c = "X" -> "x" [] OTHER -> c

ToUpper(c) ==
  CASE c = "a" -> "A" [] c = "b" -> "B" [] c = "c" -> "C"
    [] c = "d" -> "D" [] c = "e" -> "E" [] c = "f" -> "F"
    [] c = "x" -> "X" [] OTHER -> c

HexVal(c) ==
  CASE c = "0" -> 0 [] c = "1" -> 1 [] c = "2" -> 2 [] c = "3" -> 3
    [] c = "4" -> 4 [] c = "5" -> 5 [] c = "6" -> 6 [] c = "7" -> 7
    [] c = "8" -> 8 [] c = "9" -> 9 [] c = "a" -> 10 [] c = "b" -> 11
    [] c = "c" -> 12 [] c = "d" -> 13 [] c = "e" -> 14 [] c = "f" -> 15
    [] OTHER -> 0

DigitChar(d) ==
  CASE d = 0 -> "0" [] d = 1 -> "1" [] d = 2 -> "2" [] d = 3 -> "3"
    [] d = 4 -> "4" [] d = 5 -> "5" [] d = 6 -> "6" [] d = 7 -> "7"
    [] d = 8 -> "8" [] OTHER -> "9"

RECURSIVE IntStr(_)
IntStr(n) == IF n < 10 THEN <<DigitChar(n)>>
             ELSE Append(IntStr(n \div 10), DigitChar(n % 10))

RECURSIVE LStrip(_)
LStrip(s) == IF s # <<>> /\ Head(s) = " " THEN LStrip(Tail(s)) ELSE s

RECURSIVE RStrip(_)
RStrip(s) == IF s # <<>> /\ s[Len(s)] = " "
             THEN RStrip(SubSeq(s, 1, Len(s) - 1)) ELSE s

Strip(s) == RStrip(LStrip(s))

RECURSIVE FirstColumn(_)
FirstColumn(s) == IF s = <<>> \/ Head(s) = "," THEN <<>>
                  ELSE <<Head(s)>> \o FirstColumn(Tail(s))

(* ------------------------------ load_addresses ------------------------- *)
RECURSIVE load_addresses(_)
load_addresses(lines) ==
  IF lines = <<>> THEN <<>>
  ELSE LET line == Strip(Head(lines))
           rest == load_addresses(Tail(lines))
       IN IF line = <<>> \/ Head(line) = "#" THEN rest
          ELSE <<Strip(FirstColumn(line))>> \o rest

(* ------------------- web3 address predicates (library) ----------------- *)
remove_0x_prefix(s) ==
  IF Len(s) >= 2 /\ s[1] = "0" /\ s[2] \in {"x", "X"}
  THEN SubSeq(s, 3, Len(s)) ELSE s

is_hex_address(s) ==
  LET body == remove_0x_prefix(s)
  IN /\ Len(body) = AddrHexLen
     /\ \A i \in 1..Len(body) : body[i] \in Digits \cup LowerHex \cup UpperHex

RECURSIVE HexSum(_)
HexSum(s) == IF s = <<>> THEN 0 ELSE HexVal(Head(s)) + HexSum(Tail(s))

(* Stand-in for the keccak nibble test of EIP-55: a deterministic function
   of the lower-cased hex body and the position. *)
HashHigh(lower, i) == (HexSum(lower) + i) % 2 = 1

to_checksum_address(s) ==
  LET body  == remove_0x_prefix(s)
      lower == [i \in 1..Len(body) |-> ToLower(body[i])]
  IN <<"0", "x">> \o
     [i \in 1..Len(lower) |->
        IF HashHigh(lower, i) THEN ToUpper(lower[i]) ELSE lower[i]]

is_checksum_formatted(s) ==
  LET body == remove_0x_prefix(s)
  IN /\ \E i \in 1..Len(body) : body[i] \in LowerHex
     /\ \E i \in 1..Len(body) : body[i] \in UpperHex

is_address(s) ==
  /\ is_hex_address(s)
  /\ is_checksum_formatted(s) => s = to_checksum_address(s)

(* --------------------------- to_checksum_addresses --------------------- *)
RECURSIVE OkList_KeepsInvalid(_)
OkList_KeepsInvalid(rawList) ==
  IF rawList = <<>> THEN <<>>
  ELSE IF is_address(Head(rawList))
       THEN <<to_checksum_address(Head(rawList))>> \o OkList_KeepsInvalid(Tail(rawList))
       ELSE <<Head(rawList)>> \o OkList_KeepsInvalid(Tail(rawList))

RECURSIVE OkList(_)
OkList(rawList) ==
  IF rawList = <<>> THEN <<>>
  ELSE IF is_address(Head(rawList))
       THEN <<to_checksum_address(Head(rawList))>> \o OkList(Tail(rawList))
       ELSE OkList(Tail(rawList))

RECURSIVE BadList(_)
BadList(rawList) ==
  IF rawList = <<>> THEN <<>>
  ELSE IF is_address(Head(rawList))
       THEN BadList(Tail(rawList))
       ELSE <<Head(rawList)>> \o BadList(Tail(rawList))

to_checksum_addresses(rawList) == <<OkList(rawList), BadList(rawList)>>

(* ------------------------------- rpc_retry ----------------------------- *)
Delay_Linear(i) == BaseDelayMs * (i + 1)

Delay(i) == BaseDelayMs * (2 ^ i)

Exhausted_OneMore(i) == i = Retries

Exhausted(i) == i + 1 = Retries

(* ---------------------------------- chunked ---------------------------- *)
Min(a, b) == IF a < b THEN a ELSE b

ChunkAt_OneMore(lst, i, n) == SubSeq(lst, i + 1, Min(i + n + 1, Len(lst)))

ChunkAt(lst, i, n) == SubSeq(lst, i + 1, Min(i + n, Len(lst)))

(* ------------------------ aggregate request / decode ------------------- *)
BalanceOfCallData(addr) == <<"balanceOf", addr>>

BuildCalls_Reversed(b) ==
  [k \in 1..Len(b) |-> <<USDC_BASE, TRUE, BalanceOfCallData(b[Len(b) + 1 - k])>>]

BuildCalls(b) == [k \in 1..Len(b) |-> <<USDC_BASE, TRUE, BalanceOfCallData(b[k])>>]

ZeroBytes(n) == [i \in 1..n |-> 0]

Trailing(ret, n) == IF Len(ret) <= n THEN ret ELSE SubSeq(ret, Len(ret) - n + 1, Len(ret))

(* the big-endian value of the first n bytes of bs *)
RECURSIVE BigEndian(_, _)
BigEndian(bs, n) == IF n = 0 THEN 0 ELSE 256 * BigEndian(bs, n - 1) + bs[n]

FromBytesBig(bs) == BigEndian(bs, Len(bs))

DecodeRaw(ret) == FromBytesBig(Trailing(ret, WordBytes))

HasBalance_NoZeroTest(res) == res[1] /\ res[2] # <<>>

HasBalance(res) == res[1] /\ res[2] # <<>> /\ DecodeRaw(res[2]) > 0

RECURSIVE StripZeros(_)
StripZeros(s) == IF s # <<>> /\ s[Len(s)] = "0"
                 THEN StripZeros(SubSeq(s, 1, Len(s) - 1)) ELSE s

(* str(Decimal(raw) / Decimal(10) ** d), for quotients that are exact and
   need no exponent notation (d <= 6) *)
Human(rawv, d) ==
  LET ip   == rawv \div (10 ^ d)
      fp   == rawv % (10 ^ d)
      fs   == IntStr(fp)
      frac == StripZeros(Zeros(d - Len(fs)) \o fs)
  IN IF d = 0 \/ frac = <<>> THEN IntStr(ip) ELSE IntStr(ip) \o <<".">> \o frac

Record(addr, res, d, sym) ==
  <<addr, DecodeRaw(res[2]), Human(DecodeRaw(res[2]), d), sym>>

RECURSIVE Decode_SkipKeepsAddress(_, _, _, _)
Decode_SkipKeepsAddress(b, results, d, sym) ==
  IF b = <<>> \/ results = <<>> THEN <<>>
  ELSE IF HasBalance(Head(results))
       THEN <<Record(Head(b), Head(results), d, sym)>>
            \o Decode_SkipKeepsAddress(Tail(b), Tail(results), d, sym)
       ELSE Decode_SkipKeepsAddress(b, Tail(results), d, sym)

(* the loop over zip(batch, results) *)
RECURSIVE Decode(_, _, _, _)
Decode(b, results, d, sym) ==
  IF b = <<>> \/ results = <<>> THEN <<>>
  ELSE (IF HasBalance(Head(results))
        THEN <<Record(Head(b), Head(results), d, sym)>> ELSE <<>>)
       \o Decode(Tail(b), Tail(results), d, sym)

(* --------------------------------- Reporter ---------------------------- *)
PrintLine_RawAmount(rec) == rec[1] \o <<",">> \o IntStr(rec[2]) \o <<" ">> \o rec[4]

PrintLine(rec) == rec[1] \o <<",">> \o rec[3] \o <<" ">> \o rec[4]

CsvHeader == << <<"a","d","d","r","e","s","s">>, <<"u","s","d","c","_","r","a","w">>,
                <<"u","s","d","c">>, <<"s","y","m","b","o","l">> >>

CsvRow(rec) == <<rec[1], IntStr(rec[2]), rec[3], rec[4]>>

(* ------------------------------ environment ---------------------------- *)
AddrBodyA == <<"a", "b">> \o Zeros(AddrHexLen - 2)
AddrBodyB == <<"c", "d">> \o Zeros(AddrHexLen - 2)

SwapCase(s) ==
  [i \in 1..Len(s) |-> IF s[i] \in LowerHex THEN ToUpper(s[i])
                       ELSE IF s[i] \in UpperHex THEN ToLower(s[i]) ELSE s[i]]

LineUpperA   == <<" ">> \o [i \in 1..AddrHexLen |-> ToUpper(AddrBodyA[i])] \o <<",", "7">>
LineChecksB  == to_checksum_address(AddrBodyB)
LineBadCase  == <<"0", "x">> \o SwapCase(remove_0x_prefix(LineChecksB))
LineShort    == <<"0", "x", "a", "b">>
LineNonHex   == <<"0", "x", "g">> \o Zeros(AddrHexLen - 1)
LineComment  == <<"#", "a">>

FileLines == {LineUpperA, LineChecksB, LineShort}

RECURSIVE SeqsUpTo(_, _)
SeqsUpTo(S, n) ==
  IF n = 0 THEN {<<>>}
  ELSE LET shorter == SeqsUpTo(S, n - 1)
       IN shorter \cup {Append(q, x) : q \in shorter, x \in S}

Files == SeqsUpTo(FileLines, MaxLines)

(* the lines the validator rejects, a line the loader skips and a valid one *)
ValidateLines == {LineChecksB, LineBadCase, LineShort, LineNonHex, LineComment}
ValidateFiles == SeqsUpTo(ValidateLines, MaxLines)

ChunkSizes == (-1)..MaxChunk

DecimalsValues == {0, 6}
ChainSymbol == <<"U", "S", "D", "b", "C">>

WordOf(tail) == ZeroBytes(WordBytes - Len(tail)) \o tail
Payloads == {<<>>, WordOf(<<>>), WordOf(<<1>>), <<1>> \o WordOf(<<1>>)}
SubResults == {<<FALSE, WordOf(<<1>>)>>} \cup {<<TRUE, p>> : p \in Payloads}

(* what aggregate3 may hand back for n sub-calls: at most n results *)
AllResultLists == SeqsUpTo(SubResults, MaxChunk)
ResultLists(n) == {rs \in AllResultLists : Len(rs) <= n}

(* --------------------------------- state ------------------------------- *)
VARIABLES pc, file, chunk, out, raw_addrs, addrs, bad, stderr, stdout, csv,
          exitCode, decimals, symbol, nonzero, start, batch, calls, results,
          attempt, invoked, sleeps, last_err, rpcPhase, rpcResult, raised,
          submitted, issued, returned

vars == <<pc, file, chunk, out, raw_addrs, addrs, bad, stderr, stdout, csv,
          exitCode, decimals, symbol, nonzero, start, batch, calls, results,
          attempt, invoked, sleeps, last_err, rpcPhase, rpcResult, raised,
          submitted, issued, returned>>

inputVars  == <<file, chunk, out>>
loadVars   == <<raw_addrs, addrs, bad>>
outputVars == <<stdout, csv>>
tokenVars  == <<decimals, symbol>>
batchVars  == <<nonzero, start, batch, calls, results, submitted, issued, returned>>
rpcVars    == <<attempt, invoked, sleeps, last_err, rpcPhase, rpcResult>>

NoError == <<"None">>
NoCsv   == <<"no file">>
RpcError(phase, k) == <<"rpc error", phase, k>>

Init ==
  /\ pc = "start"
  /\ file = <<>> /\ chunk = 0 /\ out = FALSE
  /\ raw_addrs = <<>> /\ addrs = <<>> /\ bad = <<>>
  /\ stderr = <<>> /\ stdout = <<>> /\ csv = NoCsv
  /\ exitCode = -1
  /\ decimals = -1 /\ symbol = <<>>
  /\ nonzero = <<>> /\ start = 0 /\ batch = <<>> /\ calls = <<>> /\ results = <<>>
  /\ attempt = 0 /\ invoked = 0 /\ sleeps = <<>> /\ last_err = NoError
  /\ rpcPhase = "none" /\ rpcResult = "none" /\ raised = NoError
  /\ submitted = <<>> /\ issued = <<>> /\ returned = 0

Uncaught_ExitZero(err) ==
  /\ raised' = err
  /\ stderr' = Append(stderr, <<"traceback", err>>)
  /\ exitCode' = 0
  /\ pc' = "exit"

(* an exception nobody catches: traceback on stderr, exit status 1 *)
Uncaught(err) ==
  /\ raised' = err
  /\ stderr' = Append(stderr, <<"traceback", err>>)
  /\ exitCode' = 1
  /\ pc' = "exit"

(* main, the connectivity test *)
Connect(ok) ==
  /\ pc = "start"
  /\ IF ok
     THEN /\ pc' = "load"
          /\ UNCHANGED <<stderr, exitCode>>
     ELSE /\ stderr' = Append(stderr, <<"ERROR: Could not connect to RPC">>)
          /\ exitCode' = 2
          /\ pc' = "exit"
  /\ UNCHANGED <<inputVars, loadVars, outputVars, tokenVars, batchVars, rpcVars, raised>>

(* main, load_addresses + to_checksum_addresses + the warning. The content
   of the addresses file and the --chunk argument are the inputs of the
   part of main that starts here *)
Load(lines, n, readable) ==
  /\ pc = "load"
  /\ file' = lines
  /\ chunk' = n
  /\ IF readable
     THEN LET parts == to_checksum_addresses(load_addresses(lines))
          IN /\ raw_addrs' = load_addresses(lines)
             /\ addrs' = parts[1]
             /\ bad' = parts[2]
             /\ stderr' = IF parts[2] # <<>>
                          THEN Append(stderr, <<"Warning: skipped", Len(parts[2])>>)
                          ELSE stderr
             /\ pc' = "decimals"
             /\ UNCHANGED <<exitCode, raised>>
     ELSE /\ Uncaught(<<"OSError", "addresses_file">>)
          /\ UNCHANGED loadVars
  /\ UNCHANGED <<out, outputVars, tokenVars, batchVars, rpcVars>>

(* one pass of the rpc_retry loop whose call raises *)
AttemptFails(phase) ==
  /\ last_err' = RpcError(phase, attempt + 1)
  /\ sleeps' = Append(IF attempt = 0 THEN <<>> ELSE sleeps, Delay(attempt))
  /\ invoked' = (IF attempt = 0 THEN 0 ELSE invoked) + 1
  /\ rpcPhase' = phase
  /\ IF Exhausted(attempt)
     THEN attempt' = 0 /\ rpcResult' = "raised"
     ELSE attempt' = attempt + 1 /\ rpcResult' = "pending"

(* one pass of the rpc_retry loop whose call returns *)
AttemptReturns(phase) ==
  /\ last_err' = IF attempt = 0 THEN NoError ELSE last_err
  /\ sleeps' = IF attempt = 0 THEN <<>> ELSE sleeps
  /\ invoked' = (IF attempt = 0 THEN 0 ELSE invoked) + 1
  /\ rpcPhase' = phase
  /\ attempt' = 0
  /\ rpcResult' = "returned"

FetchDecimals ==
  /\ pc = "decimals"
  /\ \/ \E d \in DecimalsValues :
          /\ AttemptReturns("decimals")
          /\ decimals' = d
          /\ pc' = "symbol"
          /\ UNCHANGED <<stderr, exitCode, raised>>
     \/ /\ AttemptFails("decimals")
        /\ IF Exhausted(attempt)
           THEN Uncaught(last_err')
           ELSE UNCHANGED <<pc, stderr, exitCode, raised>>
        /\ UNCHANGED decimals
  /\ UNCHANGED <<inputVars, loadVars, outputVars, symbol, batchVars>>

SymbolFallback_Abort ==
  /\ Uncaught(last_err')
  /\ UNCHANGED symbol

(* the except branch around the symbol fetch *)
SymbolFallback ==
  /\ symbol' = DefaultSymbol
  /\ pc' = "batch"
  /\ UNCHANGED <<stderr, exitCode, raised>>

FetchSymbol ==
  /\ pc = "symbol"
  /\ \/ /\ AttemptReturns("symbol")
        /\ symbol' = ChainSymbol
        /\ pc' = "batch"
        /\ UNCHANGED <<stderr, exitCode, raised>>
     \/ /\ AttemptFails("symbol")
        /\ IF Exhausted(attempt)
           THEN SymbolFallback
           ELSE UNCHANGED <<symbol, pc, stderr, exitCode, raised>>
  /\ UNCHANGED <<inputVars, loadVars, outputVars, decimals, batchVars>>

(* the locals of a call of rpc_retry are gone once the caller moves on *)
RpcFrameGone ==
  /\ attempt' = 0 /\ invoked' = 0 /\ sleeps' = <<>> /\ last_err' = NoError
  /\ rpcPhase' = "none" /\ rpcResult' = "none"

(* get_usdc_nonzero_multicall, the head of the loop over chunked(...) and
   the construction of the batch's calls. results is rebound in every
   iteration and its old value is never read again, so it is dropped here;
   when the loop is over the function returns nonzero and its other locals
   are gone *)
NextBatch ==
  /\ pc = "batch"
  /\ RpcFrameGone
  /\ results' = <<>>
  /\ IF chunk = 0
     THEN /\ Uncaught(<<"ValueError", "range() arg 3 must not be zero">>)
          /\ UNCHANGED <<batch, calls, submitted>>
     ELSE IF chunk > 0 /\ start < Len(addrs)
     THEN /\ batch' = ChunkAt(addrs, start, chunk)
          /\ calls' = BuildCalls(batch')
          /\ pc' = "aggregate"
          /\ UNCHANGED <<submitted, stderr, exitCode, raised>>
     ELSE /\ pc' = "report"
          /\ batch' = <<>> /\ calls' = <<>> /\ submitted' = <<>>
          /\ UNCHANGED <<stderr, exitCode, raised>>
  /\ UNCHANGED <<inputVars, loadVars, outputVars, tokenVars,
                 nonzero, start, issued, returned>>

(* one attempt of rpc_retry(aggregate3(calls)) *)
Aggregate ==
  /\ pc = "aggregate"
  /\ submitted' = calls
  /\ issued' = IF attempt = 0 THEN Append(issued, batch) ELSE issued
  /\ \/ /\ AttemptReturns("aggregate")
        /\ returned' = returned + 1
        /\ pc' = "decode"
        /\ UNCHANGED <<stderr, exitCode, raised>>
     \/ /\ AttemptFails("aggregate")
        /\ IF Exhausted(attempt)
           THEN Uncaught(last_err')
           ELSE UNCHANGED <<pc, stderr, exitCode, raised>>
        /\ UNCHANGED returned
  /\ UNCHANGED <<inputVars, loadVars, outputVars, tokenVars, batch, calls,
                 results, nonzero, start>>

(* the list the call returned is bound to results (its content is drawn
   here, where it is first looked at) and the loop over zip(batch, results)
   decodes it *)
DecodeResults ==
  /\ pc = "decode"
  /\ \E rs \in ResultLists(Len(calls)) :
       /\ results' = rs
       /\ nonzero' = nonzero \o Decode(batch, rs, decimals, symbol)
  /\ start' = start + chunk
  /\ RpcFrameGone
  /\ pc' = "batch"
  /\ UNCHANGED <<inputVars, loadVars, outputVars, tokenVars, batch, calls,
                 submitted, issued, returned, stderr, exitCode, raised>>

(* main, the Reporter: the printed lines and the optional CSV; --out is the
   input of this part of main *)
Report(outGiven, writable) ==
  /\ pc = "report"
  /\ out' = outGiven
  /\ stdout' = [i \in 1..Len(nonzero) |-> PrintLine(nonzero[i])]
  /\ IF outGiven /\ ~writable
     THEN /\ Uncaught(<<"OSError", "out">>)
          /\ UNCHANGED csv
     ELSE /\ csv' = IF outGiven
                    THEN <<CsvHeader>> \o [i \in 1..Len(nonzero) |-> CsvRow(nonzero[i])]
                    ELSE csv
          /\ exitCode' = 0
          /\ pc' = "exit"
          /\ UNCHANGED <<stderr, raised>>
  /\ UNCHANGED <<file, chunk, loadVars, tokenVars, batchVars, rpcVars>>

LoadAddresses ==
  /\ pc = "load"
  /\ \E lines \in Files, n \in ChunkSizes, readable \in BOOLEAN : Load(lines, n, readable)

Next ==
  \/ \E ok \in BOOLEAN : Connect(ok)
  \/ LoadAddresses
  \/ FetchDecimals
  \/ FetchSymbol
  \/ NextBatch
  \/ Aggregate
  \/ DecodeResults
  \/ \E outGiven \in BOOLEAN, writable \in BOOLEAN : Report(outGiven, writable)

Spec == Init /\ [][Next]_vars

(* the same program, its addresses file drawn from the lines of ValidateLines, run
   with --chunk 1 *)
LoadValidate ==
  /\ pc = "load"
  /\ \E lines \in ValidateFiles, readable \in BOOLEAN : Load(lines, 1, readable)

NextValidate ==
  \/ \E ok \in BOOLEAN : Connect(ok)
  \/ LoadValidate
  \/ FetchDecimals
  \/ FetchSymbol
  \/ NextBatch
  \/ Aggregate
  \/ DecodeResults
  \/ \E outGiven \in BOOLEAN, writable \in BOOLEAN : Report(outGiven, writable)

SpecValidate == Init /\ [][NextValidate]_vars

TypeOK == pc \in {"start", "load", "decimals", "symbol", "batch", "aggregate", "decode", "report", "exit"}

(* ===================== properties of the program ======================= *)

(* the value of the trailing WordBytes bytes of a payload, read big-endian,
   written as a sum over the byte positions *)
RECURSIVE WeightedSum(_, _)
WeightedSum(ret, j) ==
  IF j >= Len(ret) \/ j >= WordBytes THEN 0
  ELSE (IF ret[Len(ret) - j] = 0 THEN 0 ELSE ret[Len(ret) - j] * (256 ^ j))
       + WeightedSum(ret, j + 1)

TrailingValue(ret) == WeightedSum(ret, 0)

PositiveResult(res) == res[1] = TRUE /\ Len(res[2]) > 0 /\ TrailingValue(res[2]) > 0

(* the positions of a batch whose result is paired with an address and
   carries a positive balance *)
PositiveAt(b, rs) == {i \in 1..Min(Len(b), Len(rs)) : PositiveResult(rs[i])}

(* the rank of position i among the positions G: 1 for the smallest *)
Rank(G, i) == Cardinality({g \in G : g <= i})

NewRecords == SubSeq(nonzero', Len(nonzero) + 1, Len(nonzero'))

(* C1: decoding a batch emits a record for an address only if its sub-call
   result has success = true, a non-empty payload, and trailing 32 bytes that
   decode (big-endian, unsigned) to a value > 0; failed, empty and zero results
   emit nothing, and decoding raises no error. *)
C1_RecordOnlyForPositive ==
  [][pc = "decode" =>
       \A G \in {PositiveAt(batch, results')} :
         /\ SubSeq(nonzero', 1, Len(nonzero)) = nonzero
         /\ Len(NewRecords) = Cardinality(G)
         /\ \A j \in 1..Len(NewRecords) :
              /\ NewRecords[j][2] > 0
              /\ \E i \in G :
                   /\ batch[i] = NewRecords[j][1]
                   /\ TrailingValue(results'[i][2]) = NewRecords[j][2]
         /\ exitCode' = -1 /\ raised' = NoError /\ pc' = "batch"]_vars

C1_Witness ==
  /\ pc = "batch" /\ Len(batch) = 2 /\ Len(results) = 2
  /\ results[1][1] = FALSE /\ results[1][2] # <<>>
  /\ PositiveResult(results[2]) /\ Len(results[2][2]) > WordBytes
  /\ Len(nonzero) = 1 /\ nonzero[1][1] = batch[2]

Range(q) == {q[i] : i \in 1..Len(q)}

ValidOnes(q)   == SelectSeq(q, LAMBDA a : is_address(a))
InvalidOnes(q) == SelectSeq(q, LAMBDA a : ~is_address(a))

(* C2: to_checksum_addresses partitions its input into valid and invalid
   entries, each entry in exactly one list and in input order; only the valid
   list reaches the balance fetcher, so no invalid string is ever the argument
   of a sub-call, and the only trace of the invalid entries is a warning
   carrying their count. *)
C2_InvalidNeverQueried ==
  /\ bad = InvalidOnes(raw_addrs)
  /\ Len(addrs) = Len(ValidOnes(raw_addrs))
  /\ \A i \in 1..Len(addrs) : addrs[i] = to_checksum_address(ValidOnes(raw_addrs)[i])
  /\ Len(addrs) + Len(bad) = Len(raw_addrs)
  /\ (bad # <<>>) => stderr[1] = <<"Warning: skipped", Len(bad)>>
  /\ (bad = <<>>) => \A i \in 1..Len(stderr) : stderr[i][1] # "Warning: skipped"
  /\ \A i \in 1..Len(submitted) :
       /\ submitted[i][3][2] \in Range(addrs)
       /\ submitted[i][3][2] \notin Range(bad)
  /\ \A k \in 1..Len(issued) : Range(issued[k]) \cap Range(bad) = {}
  /\ \A i \in 1..Len(nonzero) : nonzero[i][1] \notin Range(bad)

C2_Witness ==
  /\ Len(file) = 3 /\ file[1] = LineComment
  /\ raw_addrs = <<LineBadCase, LineChecksB>>
  /\ bad = <<LineBadCase>> /\ addrs = <<LineChecksB>>
  /\ Len(submitted) = 1 /\ submitted[1][3][2] = LineChecksB
  /\ stderr = << <<"Warning: skipped", 1>> >>

CeilDiv(a, b) == (a + b - 1) \div b

RECURSIVE Flatten(_)
Flatten(qq) == IF qq = <<>> THEN <<>> ELSE Head(qq) \o Flatten(Tail(qq))

FetchReturned == pc = "report" \/ (pc = "exit" /\ exitCode = 0)

(* C3: for a chunk size n >= 1 the batches issued are contiguous slices of
   the address list in input order: all but the last hold exactly n addresses,
   the last holds between 1 and n, there are ceil(L/n) of them, their
   concatenation is the list, and a batch's call is not started before the
   previous batch's call has returned. *)
C3_ContiguousBatches ==
  chunk >= 1 =>
    /\ \A k \in 1..Len(issued) :
         /\ Len(issued[k]) >= 1 /\ Len(issued[k]) <= chunk
         /\ k < Len(issued) => Len(issued[k]) = chunk
         /\ \A j \in 1..Len(issued[k]) : issued[k][j] = addrs[(k - 1) * chunk + j]
    /\ Len(issued) <= CeilDiv(Len(addrs), chunk)
    /\ Len(issued) <= returned + 1
    /\ returned <= Len(issued)
    /\ FetchReturned =>
         /\ Len(issued) = CeilDiv(Len(addrs), chunk)
         /\ Flatten(issued) = addrs

C3_Witness ==
  /\ pc = "report" /\ chunk = 2 /\ Len(addrs) = 3
  /\ Len(issued) = 2 /\ Len(issued[1]) = 2 /\ Len(issued[2]) = 1
  /\ issued[1][1] # issued[2][1]

(* C4: with 6 attempts, a call that raises on attempts 1 to 5 and returns on
   attempt 6 makes rpc_retry return the value without raising, after exactly 6
   invocations, the sleeps between attempts starting at the base delay and
   each double the one before (so strictly increasing). *)
C4_SixthAttemptReturns ==
  (rpcResult = "returned" /\ invoked = 6) =>
    /\ raised = NoError /\ exitCode = -1
    /\ last_err = RpcError(rpcPhase, 5)
    /\ Len(sleeps) = 5
    /\ sleeps[1] = BaseDelayMs
    /\ \A k \in 1..4 : sleeps[k + 1] = 2 * sleeps[k] /\ sleeps[k + 1] > sleeps[k]
    /\ rpcPhase = "decimals" => decimals \in DecimalsValues /\ pc = "symbol"
    /\ rpcPhase = "symbol" => symbol = ChainSymbol /\ pc = "batch"
    /\ rpcPhase = "aggregate" => pc = "decode"

C4_Witness ==
  /\ rpcResult = "returned" /\ invoked = 6 /\ rpcPhase = "aggregate"
  /\ sleeps = <<400, 800, 1600, 3200, 6400>>

Aborted == rpcResult = "raised" /\ rpcPhase \in {"decimals", "aggregate"}

(* C5: when the decimals fetch or a batch's aggregate call fails on all 6
   attempts, rpc_retry makes no further attempt and re-raises the error of the
   last attempt; the error aborts the run: no later batch is requested and no
   record is printed or written, records of earlier batches included. *)
C5_ExhaustionAborts ==
  /\ [](invoked <= 6)
  /\ [](Aborted =>
         /\ invoked = 6
         /\ raised = RpcError(rpcPhase, 6)
         /\ pc = "exit" /\ exitCode = 1
         /\ stdout = <<>> /\ csv = NoCsv)
  /\ [][Aborted => UNCHANGED vars]_vars
  /\ [][pc = "exit" => UNCHANGED <<issued, submitted, stdout, csv>>]_vars

C5_Witness ==
  /\ Aborted /\ rpcPhase = "aggregate"
  /\ Len(issued) = 2 /\ returned = 1 /\ nonzero # <<>>
  /\ stdout = <<>> /\ csv = NoCsv

(* C6: a symbol fetch that fails on every attempt does not abort the run:
   the batch phase follows with the symbol "USDC", every record carries the
   run's symbol, the symbol is fetched once, before any batch call, and is the
   same in all records. *)
C6_SymbolFallsBack ==
  /\ []((rpcResult = "raised" /\ rpcPhase = "symbol") =>
          /\ symbol = <<"U", "S", "D", "C">>
          /\ pc = "batch" /\ exitCode = -1 /\ raised = NoError
          /\ issued = <<>>)
  /\ [](\A i \in 1..Len(nonzero) : nonzero[i][4] = symbol)
  /\ [](issued # <<>> => symbol # <<>>)
  /\ [][symbol # <<>> => symbol' = symbol]_vars
  /\ [][symbol' # symbol => pc = "symbol" /\ issued = <<>>]_vars

C6_Witness ==
  /\ pc = "exit" /\ exitCode = 0
  /\ symbol = <<"U", "S", "D", "C">>
  /\ Len(nonzero) = 2 /\ Len(stdout) = 2

(* C7: the aggregate request for a batch of N addresses holds exactly N
   sub-calls, the i-th being the balance query for the i-th address of the
   batch, each targeting the token contract with allow-failure set; every
   retry of the batch resubmits the same sub-calls. *)
C7_OneSubCallPerAddress ==
  /\ [](rpcPhase = "aggregate" =>
          /\ Len(submitted) = Len(batch)
          /\ \A i \in 1..Len(batch) :
               submitted[i] = <<USDC_BASE, TRUE, <<"balanceOf", batch[i]>> >>)
  /\ [][(pc = "aggregate" /\ attempt > 0) => submitted' = submitted]_vars

C7_Witness ==
  /\ pc = "aggregate" /\ attempt = 3 /\ rpcPhase = "aggregate"
  /\ Len(batch) = 2 /\ batch[1] # batch[2]
  /\ Len(submitted) = 2

RanToEnd == pc = "exit" /\ exitCode # 2 /\ (raised = NoError \/ raised[1] # "rpc error")

NothingDone ==
  /\ file = <<>> /\ raw_addrs = <<>> /\ addrs = <<>> /\ bad = <<>>
  /\ decimals = -1 /\ symbol = <<>> /\ invoked = 0 /\ rpcPhase = "none"
  /\ issued = <<>> /\ submitted = <<>> /\ nonzero = <<>>
  /\ stdout = <<>> /\ csv = NoCsv

(* C8 as stated: exit code 2 when the endpoint cannot be reached, nothing
   read, called or produced; with the endpoint reachable and no call
   exhausting its retries main ends with exit code 0. *)
C8_Original ==
  /\ exitCode = 2 => NothingDone
  /\ RanToEnd => exitCode = 0

(* C8: main exits with code 2 if the endpoint cannot be reached at startup,
   having read nothing, called nothing and produced nothing; it ends with exit
   code 0 exactly when the endpoint is reachable, the addresses file can be
   read, the chunk size is not 0, no decimals or aggregate call exhausts its
   retries and the CSV, if asked for, can be opened; zero matching addresses
   still end with 0. *)
C8_ExitCodes ==
  /\ exitCode \in {-1, 0, 1, 2}
  /\ (exitCode # -1) <=> (pc = "exit")
  /\ exitCode = 2 => NothingDone /\ stderr = << <<"ERROR: Could not connect to RPC">> >>
  /\ pc = "exit" =>
       /\ (exitCode = 0) <=> (exitCode # 2 /\ raised = NoError)
       /\ exitCode = 1 =>
            \/ raised = <<"OSError", "addresses_file">> /\ raw_addrs = <<>>
            \/ raised = <<"ValueError", "range() arg 3 must not be zero">> /\ chunk = 0
            \/ raised = RpcError("decimals", 6)
            \/ raised = RpcError("aggregate", 6)
            \/ raised = <<"OSError", "out">> /\ out
       /\ (exitCode = 0 /\ chunk # 0) => returned = Len(issued)
       /\ exitCode = 0 => chunk # 0

C8_Witness ==
  /\ pc = "exit" /\ exitCode = 0
  /\ Len(addrs) = 2 /\ returned = 1 /\ nonzero = <<>> /\ stdout = <<>>

OriginalHeader == << <<"a","d","d","r","e","s","s">>, <<"t","o","k","e","n","_","r","a","w">>,
                     <<"t","o","k","e","n">>, <<"s","y","m","b","o","l">> >>

Printed == pc = "exit" /\ (exitCode = 0 \/ raised = <<"OSError", "out">>)

ReportBody(header) ==
  /\ Printed =>
       /\ Len(stdout) = Len(nonzero)
       /\ \A i \in 1..Len(nonzero) :
            stdout[i] = nonzero[i][1] \o <<",">> \o nonzero[i][3] \o <<" ">> \o nonzero[i][4]
  /\ (pc = "exit" /\ exitCode = 0 /\ out) =>
       /\ csv[1] = header
       /\ Len(csv) = 1 + Len(nonzero)
       /\ \A i \in 1..Len(nonzero) :
            csv[i + 1] = <<nonzero[i][1], IntStr(nonzero[i][2]), nonzero[i][3], nonzero[i][4]>>
       /\ Len(csv) - 1 = Len(stdout)
  /\ (pc = "exit" /\ ~(exitCode = 0 /\ out)) => csv = NoCsv
  /\ pc # "exit" => stdout = <<>> /\ csv = NoCsv

(* C9 as stated: one printed line `address,human_amount symbol` per record in
   order, and a CSV with header address,token_raw,token,symbol and one row per
   record. *)
C9_Original == ReportBody(OriginalHeader)

(* C9: the Reporter prints one line `address,human_amount symbol` per record,
   in the order the records were produced, and when an output path is given
   writes a CSV whose header row is address,usdc_raw,usdc,symbol followed by
   one row per record; the records printed and the rows written are the
   same. *)
C9_ReportMatchesRecords ==
  ReportBody(<< <<"a","d","d","r","e","s","s">>, <<"u","s","d","c","_","r","a","w">>,
                <<"u","s","d","c">>, <<"s","y","m","b","o","l">> >>)

C9_Witness ==
  /\ pc = "exit" /\ exitCode = 0 /\ out
  /\ Len(csv) = 3 /\ Len(stdout) = 2
  /\ stdout[1] # stdout[2]
  /\ decimals = 6

(* s can be obtained from t by deleting entries *)
RECURSIVE IsSubsequence(_, _)
IsSubsequence(s, t) ==
  IF s = <<>> THEN TRUE
  ELSE IF t = <<>> THEN FALSE
  ELSE IF Head(s) = Head(t) THEN IsSubsequence(Tail(s), Tail(t))
  ELSE IsSubsequence(s, Tail(t))

RecordAddresses == [j \in 1..Len(nonzero) |-> nonzero[j][1]]

(* C10: results are attributed by position: a decoded batch adds, for each
   position that has a result with a positive balance, in order, the record
   of the address at that position with the value decoded from the result at
   that position; the records are a subsequence of the validated list
   (duplicates reported per occurrence); addresses beyond the end of a short
   result list are dropped without an error. *)
C10_PositionalAttribution ==
  /\ [](IsSubsequence(RecordAddresses, addrs))
  /\ [][pc = "decode" =>
          \A G \in {PositiveAt(batch, results')} :
             /\ nonzero' = nonzero \o NewRecords
             /\ Len(NewRecords) = Cardinality(G)
             /\ \A i \in G :
                  /\ NewRecords[Rank(G, i)][1] = batch[i]
                  /\ NewRecords[Rank(G, i)][2] = TrailingValue(results'[i][2])
             /\ \A i \in 1..Len(batch) : i > Len(results') => i \notin G
             /\ exitCode' = -1 /\ raised' = NoError /\ pc' = "batch"]_vars

C10_Witness ==
  /\ pc = "batch" /\ chunk = 2 /\ Len(addrs) = 3
  /\ Len(nonzero) = 2 /\ nonzero[1][1] = nonzero[2][1]
  /\ Len(batch) = 1 /\ results = <<>> /\ returned = 2

====
